---- MODULE Spec2Model ----
(***************************************************************************)
(* Model of data-pipeline/kafka/consumers/product_consumer.py:             *)
(* DeduplicationService (Bloom filter + Redis), ProductConsumer (poll      *)
(* loop, per-message pipeline, manual offset commit) and                   *)
(* ProductConsumerGroup (one thread per consumer, shared Redis).           *)
(***************************************************************************)
EXTENDS Integers, Sequences, FiniteSets, TLC

\* ------------------------------------------------------------------ bounds
\* Messages a consumer may poll from its partition.
MaxOffset == 3
\* Messages per consumer in the two-consumer specification.
GroupMaxOffset == 2
\* Bit positions of the modelled Bloom filter.
BloomBits == 3
\* Hours the clock advances in one step, and the last hour it reaches.
TickHours == 24
MaxClock == 24
\* Hours one step of the finer clock advances.
FineTickHours == 13

\* ------------------------------------------------------- program constants
dedup_window_hours == 24

Consumers == {"c1", "c2"}

\* ------------------------------------------------------------ Python values
\* A JSON value is None, a string or a number (kept as Python prints it, so
\* that 45 and 45.0 are two values); a dict is a function whose DOMAIN is its
\* set of keys.
None == <<"none">>
Str(s) == <<"str", s>>
Num(s) == <<"num", s>>

\* bool(v): None, "" and zero are falsy.
Truthy(v) ==
  \/ v[1] = "str" /\ v[2] # ""
  \/ v[1] = "num" /\ v[2] \notin {"0", "0.0"}

\* str(v) as an f-string formats it.
PyStr(v) == IF v[1] \in {"str", "num"} THEN v[2] ELSE "None"

\* event.get(key, default)
Get(event, key, default) == IF key \in DOMAIN event THEN event[key] ELSE default

\* Mutant: the fallback operand is ignored.
OrFirst(a, b) == a

\* a or b
Or(a, b) == IF Truthy(a) THEN a ELSE b

\* ------------------------------------------------------------------ events
EvIndy ==
  [source |-> Str("seasons"), source_product_id |-> Str("123"),
   title |-> Str("Indy Stage 11"), sale_price |-> Str("45.00"),
   original_price |-> Str("55.00")]

\* source present, title missing
EvNoTitle ==
  [source |-> Str("seasons"), source_product_id |-> Str("125"),
   sale_price |-> Str("45.00")]

\* source present, title empty; its fingerprint is as long as EvIndy's, so
\* the two set the same bit of the Bloom filter
EvEmptyTitle ==
  [source |-> Str("seasons"), source_product_id |-> Str("indy-stage-11-hi"),
   title |-> Str(""), sale_price |-> Str("45.00")]

Events == {EvIndy, EvNoTitle, EvEmptyTitle}

\* A message value: bytes that are not UTF-8, text that is not JSON, JSON
\* that is not an object, or a JSON object.
Payloads ==
  {[kind |-> "bad_utf8"], [kind |-> "bad_json"], [kind |-> "non_object"]}
    \cup {[kind |-> "object", event |-> e] : e \in Events}

\* json.loads(msg.value().decode("utf-8")): what it raises, or "ok".
Decode(p) ==
  CASE p.kind = "bad_utf8" -> "UnicodeDecodeError"
    [] p.kind = "bad_json" -> "JSONDecodeError"
    [] OTHER -> "ok"

\* ---------------------------------------------------- DeduplicationService
\* Mutant: the scrape timestamp is part of the fingerprint.
fingerprint_with_scraped_at(event) ==
  LET source == Get(event, "source", Str("unknown"))
      product_id == Or(Get(event, "source_product_id", None),
                       Get(event, "product_id", Str("")))
      title == Get(event, "title", Str(""))
      price == Or(Get(event, "sale_price", None),
                  Get(event, "original_price", Str("")))
  IN  PyStr(source) \o ":" \o PyStr(product_id) \o ":" \o PyStr(title)
        \o ":" \o PyStr(price) \o ":" \o PyStr(Get(event, "scraped_at", Str("")))

\* f"{source}:{product_id}:{title}:{price}"
_generate_fingerprint(event) ==
  LET source == Get(event, "source", Str("unknown"))
      product_id == Or(Get(event, "source_product_id", None),
                       Get(event, "product_id", Str("")))
      title == Get(event, "title", Str(""))
      price == Or(Get(event, "sale_price", None),
                  Get(event, "original_price", Str("")))
  IN  PyStr(source) \o ":" \o PyStr(product_id) \o ":" \o PyStr(title)
        \o ":" \o PyStr(price)

redis_key(fingerprint) == "skatestock:dedup:" \o fingerprint

\* The bit a fingerprint sets in the Bloom filter.
BloomHash(fingerprint) == Len(fingerprint) % BloomBits

\* Mutant: the filter reports every fingerprint as possibly present.
BloomContainsAlways(filter, fingerprint) == TRUE

\* fingerprint in self.bloom_filter
BloomContains(filter, fingerprint) == BloomHash(fingerprint) \in filter

\* Mutant: add leaves the filter as it was.
BloomAddNothing(filter, fingerprint) == filter

\* self.bloom_filter.add(fingerprint)
BloomAdd(filter, fingerprint) == filter \cup {BloomHash(fingerprint)}


\* Mutant: the lookup answers for any live key, not the one asked for.
redis_exists_any(store, key, t) == \E k \in DOMAIN store : t < store[k].exp

\* Mutant: the lookup prefixes the key a second time and never finds it.
redis_exists_wrong_key(store, key, t) ==
  redis_key(key) \in DOMAIN store /\ t < store[redis_key(key)].exp

\* self.redis_client.exists(redis_key): the key is set and has not expired.
redis_exists(store, key, t) == key \in DOMAIN store /\ t < store[key].exp

\* Mutant: the TTL is twice the dedup window.
redis_setex_long_ttl(store, key, t) ==
  [k \in DOMAIN store \cup {key} |->
     IF k = key THEN [ts |-> t, exp |-> t + 2 * dedup_window_hours] ELSE store[k]]

\* self.redis_client.setex(redis_key, int(self.dedup_window_hours * 3600),
\* str(time.time())) at time t.
redis_setex(store, key, t) ==
  [k \in DOMAIN store \cup {key} |->
     IF k = key THEN [ts |-> t, exp |-> t + dedup_window_hours] ELSE store[k]]

\* Mutant: every key is dropped, expired or not.
redis_expire_flush(store, t) ==
  [k \in {j \in DOMAIN store : FALSE} |-> store[k]]

\* Redis drops the keys whose TTL has run out.
redis_expire(store, t) ==
  [k \in {j \in DOMAIN store : t < store[j].exp} |-> store[k]]

\* ---------------------------------------------------------- ProductConsumer
\* self.stats[field] += 1
Bump(s, field) == [s EXCEPT ![field] = @ + 1]

\* Mutant: every event passes.
validate_always(event) == TRUE

\* Mutant: only "source" is required.
validate_source_only(event) ==
  "source" \in DOMAIN event /\ Truthy(event["source"])

_validate_event(event) ==
  \A field \in {"source", "title"} : field \in DOMAIN event /\ Truthy(event[field])

\* Mutant: the generic exception handler returns True.
ExceptionReturnTrue == TRUE

\* What process_message returns from its generic exception handler.
ExceptionReturn == FALSE

\* Mutant: the generic exception handler dead-letters as a validation failure.
ExceptionStageValidation == "validation"

\* The stage under which the generic exception handler dead-letters.
ExceptionStage == "processing"

\* What process_message returns for an event that fails validation.
InvalidReturn == TRUE

\* Mutant: _send_to_dead_letter counts the event as failed.
DeadLetterCountsFailed == "failed"

\* The counter _send_to_dead_letter increments.
DeadLetterCounter == "dead_lettered"

\* Mutant: the exception handler never dead-letters.
DeadLetterOnExceptionNever(redecodes) == FALSE

\* except Exception: try: event = json.loads(...); self._send_to_dead_letter(
\* event, str(e), "processing") except: pass -- the event is dead-lettered
\* when the payload decodes again.
DeadLetterOnException(redecodes) == redecodes

\* Mutant: the run loop commits only while it is still running.
ShouldCommitWhileRunning(success, isRunning) == success /\ isRunning

\* if success: whether the run loop commits the message it has processed.
ShouldCommit(success, isRunning) == success

\* Mutant: the handler is never called.
HandoffNever(registered) == FALSE

\* if self.on_product_received: whether process_message calls the handler.
HandoffCalled(registered) == registered

\* Mutant: the run loop commits the polled message without processing it.
AfterPollCommit == "commit"

\* Where the run loop goes with a polled message: process_message first, the
\* commit after it.
AfterPoll == "process"

\* ------------------------------------------------------------------- state
VARIABLES
  running,              \* self.running of each consumer
  consumer,             \* self.consumer: "None" or "open"
  on_product_received,  \* whether a handoff callback is registered
  on_error,             \* whether an error callback is registered
  stats,                \* self.stats of each consumer
  bloom,                \* each consumer's own Bloom filter (set of bits)
  redis,                \* the Redis store all consumers share
  storeUp,              \* whether Redis is reachable
  now,                  \* the clock, in hours
  pc,                   \* where each consumer's thread is
  cur,                  \* the message a consumer is handling
  polled,               \* payloads polled by each consumer, by offset
  results,              \* how each polled message resolved, in order
  handoffs,             \* offsets handed to on_product_received, in order
  dlq,                  \* dead letters: offset and processing stage
  commits,              \* offsets passed to consumer.commit, in order
  limit,                \* messages each partition holds
  feed,                 \* payloads the producers publish
  group,                \* ProductConsumerGroup: threads started by start_all,
                        \* consumers stop_all has called stop() on
  probe,                \* arguments and results of functions applied alone
  stopAt,               \* offset in flight when stop() took effect, else 0
  closing               \* close() calls running beside one another: where
                        \* each is, the error the loop left with, and the
                        \* calls made of the handle's close()

vars ==
  <<running, consumer, on_product_received, on_error, stats, bloom, redis,
    storeUp, now, pc, cur, polled, results, handoffs, dlq, commits, limit, feed, group, probe, stopAt, closing>>

NoMsg == [off |-> 0]

NoProbe == [op |-> "none"]

\* No close() call is under way and the handle's close() was never called.
NotClosing == [loop |-> "idle", other |-> "idle", error |-> "none", closes |-> 0]

\* The consumers, the store and the histories after construction.
InitConsumers(members, n, payloads, registered) ==
  /\ running = [c \in Consumers |-> FALSE]
  /\ consumer = [c \in Consumers |-> "None"]
  /\ on_product_received \in [Consumers -> registered]
  /\ \A c \in Consumers \ members : ~on_product_received[c]
  /\ on_error \in [Consumers -> registered]
  /\ \A c \in Consumers \ members : ~on_error[c]
  /\ stats = [c \in Consumers |->
               [processed |-> 0, duplicates |-> 0, failed |-> 0, dead_lettered |-> 0]]
  /\ bloom = [c \in Consumers |-> {}]
  /\ redis = [k \in {} |-> 0]
  /\ storeUp = TRUE
  /\ now = 0
  /\ pc = [c \in Consumers |-> IF c \in members THEN "new" ELSE "absent"]
  /\ cur = [c \in Consumers |-> NoMsg]
  /\ polled = [c \in Consumers |-> <<>>]
  /\ results = [c \in Consumers |-> <<>>]
  /\ handoffs = [c \in Consumers |-> <<>>]
  /\ dlq = [c \in Consumers |-> <<>>]
  /\ commits = [c \in Consumers |-> <<>>]
  /\ limit = n
  /\ feed = payloads
  /\ group = [spawned |-> FALSE, stopped |-> {}]
  /\ stopAt = [c \in Consumers |-> 0]
  /\ closing = [c \in Consumers |-> NotClosing]

InitWith(members, n, payloads, registered) ==
  /\ InitConsumers(members, n, payloads, registered)
  /\ probe = NoProbe

\* One consumer; the caller may have assigned on_product_received and
\* on_error before connecting.
Init == InitWith({"c1"}, MaxOffset, Payloads, BOOLEAN)

\* ----------------------------------------------------------------- actions
\* connect(): create the Kafka consumer handle and subscribe.
connect(c) ==
  /\ pc[c] = "new"
  /\ consumer[c] = "None"
  /\ consumer' = [consumer EXCEPT ![c] = "open"]
  /\ UNCHANGED <<running, on_product_received, on_error, stats, bloom, redis,
                 storeUp, now, pc, cur, polled, results, handoffs, dlq,
                 commits, limit, feed, group, probe, stopAt, closing>>

\* start_consuming() up to the loop: RuntimeError without a handle.
start_consuming(c) ==
  /\ pc[c] = "new"
  /\ IF consumer[c] = "None"
       THEN /\ pc' = [pc EXCEPT ![c] = "raised"]
            /\ UNCHANGED running
       ELSE /\ pc' = [pc EXCEPT ![c] = "loop"]
            /\ running' = [running EXCEPT ![c] = TRUE]
  /\ UNCHANGED <<consumer, on_product_received, on_error, stats, bloom, redis,
                 storeUp, now, cur, polled, results, handoffs, dlq, commits,
                 limit, feed, group, probe, stopAt, closing>>

\* A message has been polled and the loop has not come back to its test.
InFlight(c) == pc[c] \in {"process", "exists", "setex", "mark", "commit"}

\* stop(), called from another thread.
stop(c) ==
  /\ pc[c] # "absent"
  /\ running[c]
  /\ running' = [running EXCEPT ![c] = FALSE]
  /\ stopAt' = [stopAt EXCEPT ![c] = IF InFlight(c) THEN cur[c].off ELSE 0]
  /\ UNCHANGED <<consumer, on_product_received, on_error, stats, bloom, redis,
                 storeUp, now, pc, cur, polled, results, handoffs, dlq,
                 commits, limit, feed, group, probe, closing>>

\* while self.running: ... finally: self.close()
LoopTest(c) ==
  /\ pc[c] = "loop"
  /\ IF running[c]
       THEN /\ pc' = [pc EXCEPT ![c] = "poll"]
            /\ UNCHANGED <<running, consumer>>
       ELSE /\ pc' = [pc EXCEPT ![c] = "done"]
            /\ running' = [running EXCEPT ![c] = FALSE]
            /\ consumer' = [consumer EXCEPT ![c] = "None"]
  /\ UNCHANGED <<on_product_received, on_error, stats, bloom, redis, storeUp,
                 now, cur, polled, results, handoffs, dlq, commits, limit, feed, group, probe, stopAt, closing>>

\* msg = self.consumer.poll(timeout): nothing (None, or a message carrying an
\* error) sends the loop round again.
PollNothing(c) ==
  /\ pc[c] = "poll"
  /\ consumer[c] = "open"
  /\ pc' = [pc EXCEPT ![c] = "loop"]
  /\ cur' = [cur EXCEPT ![c] = NoMsg]
  /\ UNCHANGED <<running, consumer, on_product_received, on_error, stats,
                 bloom, redis, storeUp, now, polled, results, handoffs, dlq,
                 commits, limit, feed, group, probe, stopAt, closing>>

\* msg = self.consumer.poll(timeout): the next message of the partition.
PollMessage(c) ==
  /\ pc[c] = "poll"
  /\ consumer[c] = "open"
  /\ Len(polled[c]) < limit
  /\ \E p \in feed :
       /\ polled' = [polled EXCEPT ![c] = Append(@, p)]
       /\ cur' = [cur EXCEPT ![c] = [off |-> Len(polled[c]) + 1, payload |-> p]]
  /\ pc' = [pc EXCEPT ![c] = AfterPoll]
  /\ UNCHANGED <<running, consumer, on_product_received, on_error, stats,
                 bloom, redis, storeUp, now, results, handoffs, dlq, commits,
                 limit, feed, group, probe, stopAt, closing>>

\* process_message is over for the current message: it returned ret, or the
\* error callback raised out of it (the run loop's finally then closes).
Resolve(c, kind, ret, s2, d2, crash) ==
  /\ stats' = [stats EXCEPT ![c] = s2]
  /\ dlq' = [dlq EXCEPT ![c] = d2]
  /\ results' = [results EXCEPT ![c] =
       Append(@, [off |-> cur[c].off, kind |-> kind, ret |-> ret /\ ~crash,
                  raised |-> crash, t |-> now])]
  /\ IF crash
       THEN /\ pc' = [pc EXCEPT ![c] = "crashed"]
            /\ running' = [running EXCEPT ![c] = FALSE]
            /\ consumer' = [consumer EXCEPT ![c] = "None"]
       ELSE /\ pc' = [pc EXCEPT ![c] =
                   IF ShouldCommit(ret, running[c]) THEN "commit" ELSE "loop"]
            /\ UNCHANGED <<running, consumer>>

\* except Exception: count the failure, dead-letter the event when the
\* payload decodes, call on_error, return False.
Raise(c, kind, redecodes, errRaises) ==
  LET s1 == Bump(stats[c], "failed")
      s2 == IF DeadLetterOnException(redecodes)
              THEN Bump(s1, DeadLetterCounter) ELSE s1
      d2 == IF DeadLetterOnException(redecodes)
              THEN Append(dlq[c], [off |-> cur[c].off, stage |-> ExceptionStage])
              ELSE dlq[c]
  IN  Resolve(c, kind, ExceptionReturn, s2, d2, on_error[c] /\ errRaises)

\* process_message after is_duplicate returned False: validate, normalize,
\* hand off; mark_processed is the next step.
AfterNew(c, cbRaises, errRaises) ==
  LET event == cur[c].payload.event IN
  IF ~_validate_event(event)
    THEN /\ Resolve(c, "invalid", InvalidReturn,
                    Bump(stats[c], DeadLetterCounter),
                    Append(dlq[c], [off |-> cur[c].off, stage |-> "validation"]),
                    FALSE)
         /\ UNCHANGED handoffs
    ELSE /\ handoffs' = [handoffs EXCEPT ![c] =
              IF HandoffCalled(on_product_received[c])
                THEN Append(@, cur[c].off) ELSE @]
         /\ IF HandoffCalled(on_product_received[c]) /\ cbRaises
              THEN Raise(c, "handoff_error", TRUE, errRaises)
              ELSE /\ pc' = [pc EXCEPT ![c] = "mark"]
                   /\ UNCHANGED <<stats, dlq, results, running, consumer>>

\* process_message from its start to the Bloom filter test of is_duplicate.
ProcessStart(c) ==
  /\ pc[c] = "process"
  /\ LET p == cur[c].payload IN
     \E cbRaises, errRaises \in BOOLEAN :
       CASE Decode(p) = "JSONDecodeError" ->
              /\ Resolve(c, "json_error", TRUE, Bump(stats[c], "failed"), dlq[c], FALSE)
              /\ UNCHANGED <<bloom, handoffs>>
         [] Decode(p) = "UnicodeDecodeError" ->
              /\ Raise(c, "decode_error", FALSE, errRaises)
              /\ UNCHANGED <<bloom, handoffs>>
         [] Decode(p) = "ok" /\ p.kind = "non_object" ->
              /\ Raise(c, "type_error", TRUE, errRaises)
              /\ UNCHANGED <<bloom, handoffs>>
         [] OTHER ->
              LET fingerprint == _generate_fingerprint(p.event) IN
              IF ~BloomContains(bloom[c], fingerprint)
                THEN /\ bloom' = [bloom EXCEPT ![c] = BloomAdd(@, fingerprint)]
                     /\ AfterNew(c, cbRaises, errRaises)
                ELSE /\ pc' = [pc EXCEPT ![c] = "exists"]
                     /\ UNCHANGED <<bloom, handoffs, stats, dlq, results,
                                    running, consumer>>
  /\ UNCHANGED <<on_product_received, on_error, redis, storeUp, now, cur,
                 polled, commits, limit, feed, group, probe, stopAt, closing>>

\* is_duplicate: self.redis_client.exists(redis_key)
RedisExists(c) ==
  /\ pc[c] = "exists"
  /\ LET key == redis_key(_generate_fingerprint(cur[c].payload.event)) IN
     \E errRaises \in BOOLEAN :
       IF ~storeUp
         THEN Raise(c, "dedup_error", TRUE, errRaises)
         ELSE IF redis_exists(redis, key, now)
           THEN Resolve(c, "duplicate", TRUE, Bump(stats[c], "duplicates"),
                        dlq[c], FALSE)
           ELSE /\ pc' = [pc EXCEPT ![c] = "setex"]
                /\ UNCHANGED <<stats, dlq, results, running, consumer>>
  /\ UNCHANGED <<on_product_received, on_error, bloom, redis, storeUp, now,
                 cur, polled, handoffs, commits, limit, feed, group, probe, stopAt, closing>>

\* is_duplicate: self.redis_client.setex(...), return False; then the
\* pipeline up to the handoff. The time of the write is kept with the message.
RedisSetex(c) ==
  /\ pc[c] = "setex"
  /\ LET key == redis_key(_generate_fingerprint(cur[c].payload.event)) IN
     \E cbRaises, errRaises \in BOOLEAN :
       IF ~storeUp
         THEN /\ Raise(c, "dedup_error", TRUE, errRaises)
              /\ UNCHANGED <<redis, handoffs, cur>>
         ELSE /\ redis' = redis_setex(redis, key, now)
              /\ cur' = [cur EXCEPT ![c] =
                   [off |-> @.off, payload |-> @.payload, inserted |-> now]]
              /\ AfterNew(c, cbRaises, errRaises)
  /\ UNCHANGED <<on_product_received, on_error, bloom, storeUp, now,
                 polled, commits, limit, feed, group, probe, stopAt, closing>>

\* mark_processed(event), then self.stats["processed"] += 1; return True
MarkProcessed(c) ==
  /\ pc[c] = "mark"
  /\ LET fingerprint == _generate_fingerprint(cur[c].payload.event) IN
     /\ bloom' = [bloom EXCEPT ![c] = BloomAdd(@, fingerprint)]
     /\ \E errRaises \in BOOLEAN :
          IF ~storeUp
            THEN /\ Raise(c, "mark_error", TRUE, errRaises)
                 /\ UNCHANGED redis
            ELSE /\ redis' = redis_setex(redis, redis_key(fingerprint), now)
                 /\ Resolve(c, "success", TRUE, Bump(stats[c], "processed"),
                            dlq[c], FALSE)
  /\ UNCHANGED <<on_product_received, on_error, storeUp, now, cur, polled,
                 handoffs, commits, limit, feed, group, probe, stopAt, closing>>

\* if success: self.consumer.commit(msg)
Commit(c) ==
  /\ pc[c] = "commit"
  /\ consumer[c] = "open"
  /\ commits' = [commits EXCEPT ![c] = Append(@, cur[c].off)]
  /\ pc' = [pc EXCEPT ![c] = "loop"]
  /\ UNCHANGED <<running, consumer, on_product_received, on_error, stats,
                 bloom, redis, storeUp, now, cur, polled, results, handoffs,
                 dlq, limit, feed, group, probe, stopAt, closing>>

\* Time passes; Redis expires the keys whose TTL ran out.
Tick ==
  /\ now + TickHours <= MaxClock
  /\ now' = now + TickHours
  /\ redis' = redis_expire(redis, now')
  /\ UNCHANGED <<running, consumer, on_product_received, on_error, stats,
                 bloom, storeUp, pc, cur, polled, results, handoffs, dlq,
                 commits, limit, feed, group, probe, stopAt, closing>>

\* Redis becomes unreachable, or reachable again.
StoreFlip ==
  /\ storeUp' = ~storeUp
  /\ UNCHANGED <<running, consumer, on_product_received, on_error, stats,
                 bloom, redis, now, pc, cur, polled, results, handoffs, dlq,
                 commits, limit, feed, group, probe, stopAt, closing>>

Step(c) ==
  \/ connect(c)
  \/ start_consuming(c)
  \/ stop(c)
  \/ LoopTest(c)
  \/ PollNothing(c)
  \/ PollMessage(c)
  \/ ProcessStart(c)
  \/ RedisExists(c)
  \/ RedisSetex(c)
  \/ MarkProcessed(c)
  \/ Commit(c)

Next == Step("c1") \/ Tick \/ StoreFlip

Spec == Init /\ [][Next]_vars

\* ------------------------------------------------------ ProductConsumerGroup
\* Two consumers of one group, each on its own partition, one Redis.
GroupPayloads ==
  {[kind |-> "object", event |-> e] : e \in {EvIndy, EvEmptyTitle}}

\* ProductConsumerGroup.__init__ registers no callbacks.
InitGroup == InitWith(Consumers, GroupMaxOffset, GroupPayloads, {FALSE})

NextGroup == (\E c \in Consumers : Step(c)) \/ StoreFlip

SpecGroup == InitGroup /\ [][NextGroup]_vars

\* --------------------------------------- ProductConsumerGroup, its own calls
\* connect_all(): connect every consumer, on the caller's thread.
connect_all ==
  /\ ~group.spawned
  /\ \A c \in Consumers : pc[c] = "new" /\ consumer[c] = "None"
  /\ consumer' = [c \in Consumers |-> "open"]
  /\ UNCHANGED <<running, on_product_received, on_error, stats, bloom, redis,
                 storeUp, now, pc, cur, polled, results, handoffs, dlq,
                 commits, limit, feed, group, probe, stopAt, closing>>

\* start_all() up to the joins: one thread per consumer, each to run
\* start_consuming.
start_all ==
  /\ ~group.spawned
  /\ group' = [group EXCEPT !.spawned = TRUE]
  /\ UNCHANGED <<running, consumer, on_product_received, on_error, stats,
                 bloom, redis, storeUp, now, pc, cur, polled, results,
                 handoffs, dlq, commits, limit, feed, probe, stopAt, closing>>

\* The consumers before c in self.consumers.
Earlier(c) == IF c = "c2" THEN {"c1"} ELSE {}

\* stop_all(), called on another thread while start_all is blocked: the
\* iteration that calls consumer.stop() on c.
stop_all(c) ==
  /\ group.spawned
  /\ c \notin group.stopped
  /\ Earlier(c) \subseteq group.stopped
  /\ running' = [running EXCEPT ![c] = FALSE]
  /\ stopAt' = [stopAt EXCEPT ![c] = IF InFlight(c) THEN cur[c].off ELSE 0]
  /\ group' = [group EXCEPT !.stopped = @ \cup {c}]
  /\ UNCHANGED <<consumer, on_product_received, on_error, stats, bloom, redis,
                 storeUp, now, pc, cur, polled, results, handoffs, dlq,
                 commits, limit, feed, probe, closing>>

\* The thread start_all started for c: start_consuming and its loop.
Thread(c) ==
  /\ group.spawned
  /\ \/ start_consuming(c)
     \/ LoopTest(c)
     \/ PollNothing(c)
     \/ PollMessage(c)
     \/ ProcessStart(c)
     \/ RedisExists(c)
     \/ RedisSetex(c)
     \/ MarkProcessed(c)
     \/ Commit(c)

NextShutdown ==
  \/ connect_all
  \/ start_all
  \/ \E c \in Consumers : Thread(c)
  \/ \E c \in Consumers : stop_all(c)

SpecShutdown == InitGroup /\ [][NextShutdown]_vars

\* ------------------------------------------------ one consumer, finer clock
\* Two products whose fingerprints set the same Bloom bit, and a clock that
\* stops inside the dedup window and beyond it.
FinePayloads ==
  {[kind |-> "object", event |-> e] : e \in {EvIndy, EvEmptyTitle}}

InitFine == InitWith({"c1"}, MaxOffset, FinePayloads, BOOLEAN)

TickFine ==
  /\ now < MaxClock
  /\ now' = now + FineTickHours
  /\ redis' = redis_expire(redis, now')
  /\ UNCHANGED <<running, consumer, on_product_received, on_error, stats,
                 bloom, storeUp, pc, cur, polled, results, handoffs, dlq,
                 commits, limit, feed, group, probe, stopAt, closing>>

NextFine == Step("c1") \/ TickFine \/ StoreFlip

SpecFine == InitFine /\ [][NextFine]_vars

\* ------------------------------------------- _generate_fingerprint alone
\* A key the event does not have.
Absent == <<"absent">>

\* The event with the keys the choice gives a value to.
MkEvent(choice) ==
  [k \in {f \in DOMAIN choice : choice[f] # Absent} |-> choice[k]]

\* Events over the keys the fingerprint reads and one it does not read,
\* with keys missing, null, falsy and shadowed.
FpEvents ==
  {MkEvent(choice) : choice \in
     [source : {Absent, Str("seasons")},
      source_product_id : {Absent, None, Str("123")},
      product_id : {Absent, Str("123")},
      title : {Absent, Str("Indy Stage 11")},
      sale_price : {Absent, Num("0"), Num("45")},
      original_price : {Absent, Num("45")},
      scraped_at : {Str("2024-01-01T00:00:00"), Str("2024-01-02T00:00:00")}]}

\* Two events, no fingerprint computed yet.
InitFp ==
  /\ InitConsumers({}, 0, {}, {FALSE})
  /\ probe \in [op : {"fingerprint"}, e : [{1, 2} -> FpEvents],
                order : {<<>>}, fp : {<<"", "">>}]

\* Event i arrives: self._generate_fingerprint(event).
Arrive(i) ==
  /\ probe.op = "fingerprint"
  /\ \A k \in 1..Len(probe.order) : probe.order[k] # i
  /\ probe' = [probe EXCEPT !.order = Append(@, i),
                            !.fp[i] = _generate_fingerprint(probe.e[i])]
  /\ UNCHANGED <<running, consumer, on_product_received, on_error, stats,
                 bloom, redis, storeUp, now, pc, cur, polled, results,
                 handoffs, dlq, commits, limit, feed, group, stopAt, closing>>

NextFp == Arrive(1) \/ Arrive(2)

SpecFp == InitFp /\ [][NextFp]_vars

\* ------------------------------- _generate_fingerprint, one event at a time
\* Events over the keys the fingerprint reads, each missing, null, falsy or
\* set.
FpEventsWide ==
  {MkEvent(choice) : choice \in
     [source : {Absent, None, Str("seasons")},
      source_product_id : {Absent, None, Str("123")},
      product_id : {Absent, None, Str("9")},
      title : {Absent, None, Str("Indy Stage 11")},
      sale_price : {Absent, None, Num("0"), Str("45.00")},
      original_price : {Absent, None, Num("55")}]}

\* One event, no fingerprint computed yet.
InitFpOne ==
  /\ InitConsumers({}, 0, {}, {FALSE})
  /\ probe \in [op : {"fingerprint_one"}, e : FpEventsWide, done : {FALSE}, fp : {""}]

\* self._generate_fingerprint(event)
Fingerprint ==
  /\ probe.op = "fingerprint_one"
  /\ ~probe.done
  /\ probe' = [probe EXCEPT !.done = TRUE, !.fp = _generate_fingerprint(probe.e)]
  /\ UNCHANGED <<running, consumer, on_product_received, on_error, stats,
                 bloom, redis, storeUp, now, pc, cur, polled, results,
                 handoffs, dlq, commits, limit, feed, group, stopAt, closing>>

NextFpOne == Fingerprint

SpecFpOne == InitFpOne /\ [][NextFpOne]_vars

\* ------------------------------------------------------- _normalize_event
\* A string kept as its characters, for the code that reads it character by
\* character; a JSON integer too large for a float; a JSON array.
Text(chars) == <<"text", chars>>
BigInt == <<"bigint">>
List == <<"list">>

\* A float, in hundredths (the prices of the model have at most two
\* decimals).
Float(hundredths) == <<"float", hundredths>>

\* bool(v) for the values a price field may hold.
PriceTruthy(v) ==
  CASE v[1] = "text" -> v[2] # <<>>
    [] v[1] = "float" -> v[2] # 0
    [] v[1] = "bigint" -> TRUE
    [] v[1] = "list" -> TRUE
    [] OTHER -> Truthy(v)

Digits ==
  ("0" :> 0) @@ ("1" :> 1) @@ ("2" :> 2) @@ ("3" :> 3) @@ ("4" :> 4) @@
  ("5" :> 5) @@ ("6" :> 6) @@ ("7" :> 7) @@ ("8" :> 8) @@ ("9" :> 9)

NotCurrency(ch) == ch \notin {"$", ","}

\* price_val.replace("$", "").replace(",", "")
RemoveCurrency(chars) == SelectSeq(chars, NotCurrency)

\* str.strip()
RECURSIVE Strip(_)
Strip(chars) ==
  IF chars = <<>> THEN <<>>
  ELSE IF Head(chars) = " " THEN Strip(Tail(chars))
  ELSE IF chars[Len(chars)] = " " THEN Strip(SubSeq(chars, 1, Len(chars) - 1))
  ELSE chars

\* The number a run of digits spells.
RECURSIVE DigitsValue(_)
DigitsValue(chars) ==
  IF chars = <<>> THEN 0
  ELSE DigitsValue(SubSeq(chars, 1, Len(chars) - 1)) * 10 + Digits[chars[Len(chars)]]

AllDigits(chars) == \A i \in 1..Len(chars) : chars[i] \in DOMAIN Digits

\* What float() raises on text that is no number.
ValueError == <<"ValueError">>

\* float(cleaned) for an unsigned decimal literal of at most two decimals:
\* <<"ok", the value in hundredths>>, or ValueError.
ParseUnsigned(chars) ==
  LET dots == {i \in 1..Len(chars) : chars[i] = "."} IN
  IF dots = {}
    THEN IF chars # <<>> /\ AllDigits(chars)
           THEN <<"ok", DigitsValue(chars) * 100>> ELSE ValueError
    ELSE LET dot == CHOOSE i \in dots : TRUE
             whole == SubSeq(chars, 1, dot - 1)
             frac == SubSeq(chars, dot + 1, Len(chars))
         IN  IF /\ Cardinality(dots) = 1
                /\ AllDigits(whole) /\ AllDigits(frac)
                /\ Len(whole) + Len(frac) > 0
                /\ Len(frac) <= 2
               THEN <<"ok", DigitsValue(whole) * 100
                              + (IF Len(frac) = 1 THEN 10 ELSE 1) * DigitsValue(frac)>>
               ELSE ValueError

\* float(cleaned), with a leading sign.
ParseFloat(chars) ==
  IF chars # <<>> /\ Head(chars) \in {"-", "+"}
    THEN LET v == ParseUnsigned(Tail(chars)) IN
         IF v = ValueError THEN v
         ELSE IF Head(chars) = "-" THEN <<"ok", 0 - v[2]>> ELSE v
    ELSE ParseUnsigned(chars)

\* What float() raises on an integer beyond the range of a float, and what
\* calling upper() on a value that is no str raises.
OverflowError == <<"OverflowError">>
AttributeError == <<"AttributeError">>

\* _parse_price(price_val): a float, None, or the exception float() raises.
_parse_price(price_val) ==
  IF ~PriceTruthy(price_val) THEN None
  ELSE CASE price_val[1] = "float" -> price_val
         [] price_val[1] = "bigint" -> OverflowError
         [] price_val[1] = "text" ->
              LET v == ParseFloat(Strip(RemoveCurrency(price_val[2]))) IN
              IF v = ValueError THEN None ELSE Float(v[2])
         [] OTHER -> None

\* n / d to the nearest integer, ties to the even one, for d > 0.
RoundDiv(n, d) ==
  LET q == n \div d
      r == n % d
  IN  IF 2 * r < d THEN q
      ELSE IF 2 * r > d THEN q + 1
      ELSE IF q % 2 = 0 THEN q ELSE q + 1

\* if original_price and sale_price and original_price > 0:
\*     discount_pct = round((original_price - sale_price) / original_price * 100, 2)
discount_pct(original_price, sale_price) ==
  IF PriceTruthy(original_price) /\ PriceTruthy(sale_price) /\ original_price[2] > 0
    THEN Float(RoundDiv((original_price[2] - sale_price[2]) * 10000,
                        original_price[2]))
    ELSE None

\* _extract_brand(title): title.upper() needs a str; the first known brand
\* the title contains, for the titles of the model.
_extract_brand(title) ==
  IF title[1] # "str" THEN AttributeError
  ELSE IF title[2] = "Baker Brand Logo Deck" THEN Str("Baker") ELSE None

\* Mutant: product_id joins with ":" as the fingerprint does.
product_id_colon(event) ==
  PyStr(Get(event, "source", None)) \o ":"
    \o PyStr(Get(event, "source_product_id", None))

\* f"{event.get('source')}_{event.get('source_product_id')}"
product_id(event) ==
  PyStr(Get(event, "source", None)) \o "_"
    \o PyStr(Get(event, "source_product_id", None))

\* _normalize_event(event): the normalized record (the fields that depend on
\* more than one event.get), or the exception that leaves the function.
_normalize_event(event) ==
  LET title == Get(event, "title", Str(""))
      brand == _extract_brand(title)
      original_price == _parse_price(Get(event, "original_price", None))
      sale_price == _parse_price(Get(event, "sale_price", None))
  IN  IF brand = AttributeError THEN [raised |-> "AttributeError"]
      ELSE IF original_price = OverflowError \/ sale_price = OverflowError
        THEN [raised |-> "OverflowError"]
      ELSE [raised |-> "no",
            product_id |-> product_id(event),
            source_product_id |-> Get(event, "source_product_id", None),
            title |-> title,
            brand |-> brand,
            original_price |-> original_price,
            sale_price |-> sale_price,
            discount_percentage |-> discount_pct(original_price, sale_price),
            source |-> Get(event, "source", None)]

\* Events that pass _validate_event, with prices of every type and form and
\* a discount of their own.
NormEvents ==
  {MkEvent(choice) : choice \in
     [source : {Str("seasons")},
      source_product_id : {Absent, Str("123")},
      title : {Str("Indy Stage 11"), Str("Baker Brand Logo Deck")},
      original_price :
        {Absent, None, Float(5500), Float(0), BigInt, List,
         Text(<<"$", "5", "5", ".", "0", "0">>),
         Text(<<"1", ",", "0", "5", "5", ".", "5">>),
         Text(<<" ", "5", "5", " ">>),
         Text(<<"-", "5">>),
         Text(<<"a", "b", "c">>)},
      sale_price :
        {Absent, Float(4500), Float(6000), BigInt,
         Text(<<"4", "5", ".", "0", "0">>),
         Text(<<"0", ".", "0", "0">>),
         Text(<<"$">>)},
      discount_percentage : {Absent, Float(9900)}]}

\* One event that process_message found new and valid.
InitNorm ==
  /\ InitConsumers({}, 0, {}, {FALSE})
  /\ probe \in [op : {"normalize"}, e : NormEvents, done : {FALSE},
                product : {[raised |-> "no"]}]

\* product = self._normalize_event(event)
normalize ==
  /\ probe.op = "normalize"
  /\ ~probe.done
  /\ probe' = [probe EXCEPT !.done = TRUE, !.product = _normalize_event(probe.e)]
  /\ UNCHANGED <<running, consumer, on_product_received, on_error, stats,
                 bloom, redis, storeUp, now, pc, cur, polled, results,
                 handoffs, dlq, commits, limit, feed, group, stopAt, closing>>

NextNorm == normalize

SpecNorm == InitNorm /\ [][NextNorm]_vars

\* ------------------------------------- close() beside a running run loop
\* The callers of close(): the run loop's own finally block, and another
\* thread (ProductConsumerGroup.close_all, or close() called directly).
Closers == {"loop", "other"}

\* The close() call of caller w moves to position pos; the run loop's thread
\* ends when its own call is over.
CloseAt(c, w, pos) ==
  /\ closing' = [closing EXCEPT ![c][w] = pos]
  /\ IF w = "loop" /\ pos \in {"done", "raised"}
       THEN pc' = [pc EXCEPT ![c] =
                    IF pos = "raised" \/ closing[c].error # "none"
                      THEN "crashed" ELSE "done"]
       ELSE UNCHANGED pc

\* close() called from another thread: self.running = False
close(c) ==
  /\ pc[c] \notin {"absent", "new", "raised"}
  /\ closing[c].other = "idle"
  /\ running' = [running EXCEPT ![c] = FALSE]
  /\ closing' = [closing EXCEPT ![c].other = "test"]
  /\ UNCHANGED <<consumer, on_product_received, on_error, stats, bloom, redis,
                 storeUp, now, pc, cur, polled, results, handoffs, dlq,
                 commits, limit, feed, group, probe, stopAt>>

\* close_all(): for consumer in self.consumers: consumer.close()
close_all == \E c \in Consumers : close(c)

\* while self.running: ... finally: self.close(), up to close()'s
\* self.running = False
LoopTestClose(c) ==
  /\ pc[c] = "loop"
  /\ IF running[c]
       THEN /\ pc' = [pc EXCEPT ![c] = "poll"]
            /\ UNCHANGED closing
       ELSE /\ pc' = [pc EXCEPT ![c] = "closing"]
            /\ closing' = [closing EXCEPT ![c].loop = "test"]
  /\ UNCHANGED <<running, consumer, on_product_received, on_error, stats,
                 bloom, redis, storeUp, now, cur, polled, results, handoffs,
                 dlq, commits, limit, feed, group, probe, stopAt>>

\* self.consumer.poll(...) or self.consumer.commit(msg) when self.consumer
\* is None (AttributeError) or is a handle already closed (the client
\* raises RuntimeError): the error leaves the loop through finally:
\* self.close().
UseReleased(c) ==
  /\ pc[c] \in {"poll", "commit"}
  /\ consumer[c] # "open"
  /\ pc' = [pc EXCEPT ![c] = "closing"]
  /\ running' = [running EXCEPT ![c] = FALSE]
  /\ closing' = [closing EXCEPT
       ![c].loop = "test",
       ![c].error = IF consumer[c] = "None" THEN "AttributeError"
                                            ELSE "RuntimeError"]
  /\ UNCHANGED <<consumer, on_product_received, on_error, stats, bloom, redis,
                 storeUp, now, cur, polled, results, handoffs, dlq, commits,
                 limit, feed, group, probe, stopAt>>

\* close(): if self.consumer:
CloseTest(c, w) ==
  /\ closing[c][w] = "test"
  /\ CloseAt(c, w, IF consumer[c] = "None" THEN "done" ELSE "handle")
  /\ UNCHANGED <<running, consumer, on_product_received, on_error, stats,
                 bloom, redis, storeUp, now, cur, polled, results, handoffs,
                 dlq, commits, limit, feed, group, probe, stopAt>>

\* close(): self.consumer.close(), AttributeError when another close() has
\* set self.consumer to None since the test.
CloseHandle(c, w) ==
  /\ closing[c][w] = "handle"
  /\ IF consumer[c] = "None"
       THEN /\ CloseAt(c, w, "raised")
            /\ UNCHANGED consumer
       ELSE /\ closing' = [closing EXCEPT ![c][w] = "none",
                                          ![c].closes = @ + 1]
            /\ consumer' = [consumer EXCEPT ![c] = "closed"]
            /\ UNCHANGED pc
  /\ UNCHANGED <<running, on_product_received, on_error, stats, bloom, redis,
                 storeUp, now, cur, polled, results, handoffs, dlq, commits,
                 limit, feed, group, probe, stopAt>>

\* close(): self.consumer = None
CloseNone(c, w) ==
  /\ closing[c][w] = "none"
  /\ consumer' = [consumer EXCEPT ![c] = "None"]
  /\ CloseAt(c, w, "done")
  /\ UNCHANGED <<running, on_product_received, on_error, stats, bloom, redis,
                 storeUp, now, cur, polled, results, handoffs, dlq, commits,
                 limit, feed, group, probe, stopAt>>

\* One consumer without callbacks, its run loop, and close() called from
\* another thread at any moment after the loop has started.
InitClose == InitWith({"c1"}, GroupMaxOffset, FinePayloads, {FALSE})

NextClose ==
  \/ connect("c1")
  \/ start_consuming("c1")
  \/ LoopTestClose("c1")
  \/ PollNothing("c1")
  \/ PollMessage("c1")
  \/ ProcessStart("c1")
  \/ RedisExists("c1")
  \/ RedisSetex("c1")
  \/ MarkProcessed("c1")
  \/ Commit("c1")
  \/ UseReleased("c1")
  \/ close_all
  \/ \E w \in Closers : CloseTest("c1", w)
  \/ \E w \in Closers : CloseHandle("c1", w)
  \/ \E w \in Closers : CloseNone("c1", w)

SpecClose == InitClose /\ [][NextClose]_vars

\* ------------------------------------------------- vocabulary of the claims
Resolved(c) == 1..Len(results[c])

\* The payload of the message results[c][i] is about.
PayloadOf(c, i) == polled[c][results[c][i].off]

IsEvent(p) == p.kind = "object"

FingerprintAt(c, off) == _generate_fingerprint(polled[c][off].event)

\* How often the callback was invoked for the message at an offset.
HandedCount(c, off) ==
  Cardinality({h \in 1..Len(handoffs[c]) : handoffs[c][h] = off})

DeadLetters(c, off) == {d \in 1..Len(dlq[c]) : dlq[c][d].off = off}

DlqStages(c, off) == {dlq[c][d].stage : d \in DeadLetters(c, off)}

Committed(c, off) == \E a \in 1..Len(commits[c]) : commits[c][a] = off

\* process_message returned True for the message and the commit is next.
AtCommit(c, off) == pc[c] = "commit" /\ cur[c].off = off

\* results[c][i] and results[c][j] are the first and the second delivery of
\* one event, the second within the dedup window of the first.
TwoDeliveries(c, i, j) ==
  LET ki == results[c][i].off
      kj == results[c][j].off
  IN  /\ ki < kj
      /\ IsEvent(polled[c][ki])
      /\ polled[c][kj] = polled[c][ki]
      /\ \A k \in 1..(kj - 1) : k # ki => polled[c][k] # polled[c][ki]
      /\ results[c][j].t - results[c][i].t < dedup_window_hours

DuplicateResults(c) == {i \in Resolved(c) : results[c][i].kind = "duplicate"}

StoreErrors == {"dedup_error", "mark_error"}

TitleMissing(p) == IsEvent(p) /\ ~("title" \in DOMAIN p.event /\ Truthy(p.event.title))

C3_AtMostOneNew ==
  \A c, d \in Consumers :
    (c # d /\ pc[c] = "mark" /\ pc[d] = "mark") =>
      FingerprintAt(c, cur[c].off) # FingerprintAt(d, cur[d].off)

\* C4 (as claimed). Within the dedup window a consumer invokes the handoff
\* callback at most once per fingerprint.
C4_AtMostOnceHandoff ==
  now < dedup_window_hours =>
    \A c \in Consumers : \A a, b \in 1..Len(handoffs[c]) :
      a < b => FingerprintAt(c, handoffs[c][a]) # FingerprintAt(c, handoffs[c][b])

\* C5. Offsets are committed in the order the messages were polled, and an
\* offset is committed only when its message's pipeline has resolved.
C5_CommitOrder ==
  \A c \in Consumers :
    /\ \A a, b \in 1..Len(commits[c]) : a < b => commits[c][a] < commits[c][b]
    /\ \A a \in 1..Len(commits[c]) :
         \E i \in Resolved(c) : results[c][i].off = commits[c][a] /\ results[c][i].ret

C5_Witness ==
  \E c \in Consumers :
    /\ Len(commits[c]) >= 2
    /\ \E i \in Resolved(c) : ~Committed(c, results[c][i].off) /\ ~results[c][i].ret

\* C6 (as claimed). Every delivery of an event without a title is
\* dead-lettered with stage "validation" and is not handed to the callback.
\* Stated for the deliveries during which the store did not fail.
C6_InvalidAlwaysDeadLettered ==
  \A c \in Consumers : \A i \in Resolved(c) :
    (TitleMissing(PayloadOf(c, i)) /\ results[c][i].kind # "dedup_error") =>
      /\ "validation" \in DlqStages(c, results[c][i].off)
      /\ HandedCount(c, results[c][i].off) = 0

\* C6 (amended). No delivery of an event without a title is handed to the
\* callback; a delivery that is_duplicate reports as new is dead-lettered
\* once, with stage "validation"; the others are counted as duplicates or
\* fail in the store lookup.
C6_InvalidNeverHandedOff ==
  \A c \in Consumers :
    /\ \A h \in 1..Len(handoffs[c]) : ~TitleMissing(polled[c][handoffs[c][h]])
    /\ \A i \in Resolved(c) : TitleMissing(PayloadOf(c, i)) =>
         /\ results[c][i].kind \in {"invalid", "duplicate", "dedup_error"}
         /\ results[c][i].kind = "invalid" =>
              /\ DlqStages(c, results[c][i].off) = {"validation"}
              /\ Cardinality(DeadLetters(c, results[c][i].off)) = 1
         /\ results[c][i].kind = "duplicate" => DeadLetters(c, results[c][i].off) = {}

C6_Witness ==
  \E c \in Consumers : \E i, j \in Resolved(c) :
    /\ on_product_received[c]
    /\ PayloadOf(c, i) = [kind |-> "object", event |-> EvNoTitle]
    /\ PayloadOf(c, j) = PayloadOf(c, i)
    /\ results[c][i].kind = "invalid"
    /\ results[c][j].kind = "duplicate"

\* C7. The step that resolves a message as a validation failure adds one to
\* dead_lettered, leaves failed, processed and duplicates as they were and
\* goes on to commit the message's offset; the commit step appends it.
C7_ValidationFailureStep ==
  \A c \in Consumers :
    (/\ Len(results'[c]) = Len(results[c]) + 1
     /\ results'[c][Len(results'[c])].kind = "invalid") =>
      /\ stats'[c].dead_lettered = stats[c].dead_lettered + 1
      /\ stats'[c].failed = stats[c].failed
      /\ stats'[c].processed = stats[c].processed
      /\ stats'[c].duplicates = stats[c].duplicates
      /\ pc'[c] = "commit"
      /\ cur'[c].off = results'[c][Len(results'[c])].off

C7_CommitStep ==
  \A c \in Consumers :
    (pc[c] = "commit" /\ pc'[c] # "commit") =>
      commits'[c] = Append(commits[c], cur[c].off)

C7_ValidationFailure ==
  /\ [][C7_ValidationFailureStep /\ C7_CommitStep]_vars
  /\ [](\A c \in Consumers : \A i \in Resolved(c) :
          results[c][i].kind = "invalid" =>
            Committed(c, results[c][i].off) \/ AtCommit(c, results[c][i].off))

C7_Witness ==
  \E c \in Consumers : \E i \in Resolved(c) :
    /\ PayloadOf(c, i) = [kind |-> "object", event |-> EvNoTitle]
    /\ results[c][i].kind = "invalid"
    /\ Committed(c, results[c][i].off)
    /\ stats[c] = [processed |-> 0, duplicates |-> 0, failed |-> 0, dead_lettered |-> 1]

\* C8 (as claimed). A message whose payload does not decode (not UTF-8, or
\* not JSON) is counted as failed and its offset is committed.
C8_MalformedCommitted ==
  \A c \in Consumers : \A i \in Resolved(c) :
    (Decode(PayloadOf(c, i)) # "ok" /\ ~results[c][i].raised) =>
      /\ stats[c].failed >= 1
      /\ Committed(c, results[c][i].off) \/ AtCommit(c, results[c][i].off)

\* C9 (as claimed). A message during whose processing the store was
\* unreachable is not handed to the callback.
C9_StoreOutageNoHandoff ==
  \A c \in Consumers : \A i \in Resolved(c) :
    results[c][i].kind \in StoreErrors => HandedCount(c, results[c][i].off) = 0

\* C10 (as claimed). A message that failed on an unreachable store is left
\* uncommitted, and when it is dead-lettered the stage is "dedup_unavailable".
C10_StoreOutageRetried ==
  \A c \in Consumers : \A i \in Resolved(c) :
    results[c][i].kind \in StoreErrors =>
      /\ ~Committed(c, results[c][i].off)
      /\ DlqStages(c, results[c][i].off) \subseteq {"dedup_unavailable"}

\* C10 (amended). A message that failed on an unreachable store is left
\* uncommitted, is attempted once and is dead-lettered by that one attempt,
\* with stage "processing".
C10_StoreOutageDeadLettered ==
  \A c \in Consumers : \A i \in Resolved(c) :
    results[c][i].kind \in StoreErrors =>
      /\ ~Committed(c, results[c][i].off)
      /\ ~AtCommit(c, results[c][i].off)
      /\ Cardinality({j \in Resolved(c) : results[c][j].off = results[c][i].off}) = 1
      /\ Cardinality(DeadLetters(c, results[c][i].off)) = 1
      /\ DlqStages(c, results[c][i].off) = {"processing"}

C10_Witness ==
  \E c \in Consumers : \E i, j \in Resolved(c) :
    /\ results[c][i].kind = "dedup_error"
    /\ results[c][j].kind = "mark_error"
    /\ Len(commits[c]) >= 1

\* Every earlier delivery of the fingerprint of results[c][j] resolved more
\* than the dedup window before it, and one of them was processed.
AfterWindow(c, j) ==
  /\ IsEvent(PayloadOf(c, j))
  /\ \E i \in Resolved(c) :
       /\ results[c][i].off < results[c][j].off
       /\ PayloadOf(c, i) = PayloadOf(c, j)
       /\ results[c][i].kind = "success"
  /\ \A i \in Resolved(c) :
       (/\ results[c][i].off < results[c][j].off
        /\ IsEvent(PayloadOf(c, i))
        /\ FingerprintAt(c, results[c][i].off) = FingerprintAt(c, results[c][j].off))
         => results[c][j].t - results[c][i].t > dedup_window_hours

\* C11. An event that was processed and is delivered again when more than
\* the dedup window has passed is treated as new: whenever is_duplicate
\* returns it returns false (the delivery is never a duplicate), and the event
\* goes through the pipeline again, up to the handoff to a registered callback.
C11_NewAfterWindow ==
  \A c \in Consumers : \A j \in Resolved(c) :
    (AfterWindow(c, j) /\ results[c][j].kind # "dedup_error") =>
      /\ results[c][j].kind \in {"success", "handoff_error", "mark_error"}
      /\ HandedCount(c, results[c][j].off) = (IF on_product_received[c] THEN 1 ELSE 0)

C11_Witness ==
  \E c \in Consumers : \E j \in Resolved(c) :
    /\ AfterWindow(c, j)
    /\ on_product_received[c]
    /\ results[c][j].kind = "success"
    /\ HandedCount(c, results[c][j].off) = 1

\* C12. When the run loop has exited because of stop(), every polled message
\* has been resolved and every message process_message returned True for has
\* had its offset committed, the message in flight when stop() arrived
\* included.
C12_StopCompletesInFlight ==
  \A c \in Consumers : pc[c] = "done" =>
    /\ Len(results[c]) = Len(polled[c])
    /\ \A j \in Resolved(c) : results[c][j].ret => Committed(c, results[c][j].off)
    /\ stopAt[c] # 0 => \E j \in Resolved(c) : results[c][j].off = stopAt[c]

C12_Witness ==
  \E c \in Consumers :
    /\ pc[c] = "done"
    /\ stopAt[c] # 0
    /\ \E j \in Resolved(c) : results[c][j].off = stopAt[c] /\ results[c][j].ret
    /\ Committed(c, stopAt[c])

\* C13. A stop signal is never lost: once stop_all has called stop() on a
\* consumer, that consumer's running flag is never set again, so its loop
\* exits at the next test and start_all returns.
C13_StopNeverLost ==
  \A c \in group.stopped : ~running[c]

\* C14. No error raised while one message is processed aborts the run loop:
\* nothing propagates out of process_message, and the loop is never left
\* through its finally clause by an exception.
C14_LoopSurvives ==
  \A c \in Consumers :
    /\ pc[c] # "crashed"
    /\ \A j \in Resolved(c) : ~results[c][j].raised

\* Results of the messages that were new and valid: is_duplicate returned
\* False, _validate_event passed and _normalize_event returned.
NewAndValid == {"success", "handoff_error", "mark_error"}

\* Results of the messages classified as duplicate, invalid or undecodable,
\* and of those whose classification failed.
NotNew ==
  {"duplicate", "invalid", "json_error", "decode_error", "type_error", "dedup_error"}

\* C15. With a callback registered, every new and valid message is handed to
\* it exactly once, inside process_message and so before its offset is
\* committed; every message counted in processed was handed to it; a message
\* classified as duplicate, invalid or undecodable is never handed to it.
C15_HandoffComplete ==
  \A c \in Consumers : on_product_received[c] =>
    /\ \A j \in Resolved(c) :
         /\ results[c][j].kind \in NewAndValid \cup NotNew
         /\ results[c][j].kind \in NewAndValid =>
              /\ HandedCount(c, results[c][j].off) = 1
              /\ IsEvent(PayloadOf(c, j))
              /\ _validate_event(PayloadOf(c, j).event)
         /\ results[c][j].kind \in NotNew => HandedCount(c, results[c][j].off) = 0
    /\ stats[c].processed =
         Cardinality({j \in Resolved(c) : results[c][j].kind = "success"})
    /\ pc[c] = "mark" => HandedCount(c, cur[c].off) = 1
    /\ \A off \in 1..Len(polled[c]) :
         (AtCommit(c, off) \/ Committed(c, off)) =>
           \E j \in Resolved(c) :
             /\ results[c][j].off = off
             /\ results[c][j].kind = "success" => HandedCount(c, off) = 1

C15_Witness ==
  \E c \in Consumers : \E i, j \in Resolved(c) :
    /\ on_product_received[c]
    /\ results[c][i].kind = "success"
    /\ HandedCount(c, results[c][i].off) = 1
    /\ Committed(c, results[c][i].off)
    /\ results[c][j].kind = "duplicate"
    /\ HandedCount(c, results[c][j].off) = 0

\* What the step from the unprimed to the primed state added to a counter
\* of consumer c.
Added(c, field) == stats'[c][field] - stats[c][field]

\* C16 (as claimed). No single message increments both failed and
\* dead_lettered.
C16_NonOverlapping ==
  [][\A c \in Consumers :
       ~(Added(c, "failed") > 0 /\ Added(c, "dead_lettered") > 0)]_vars

\* Outcomes of the generic exception handler with a payload that decodes.
BothCounted == {"type_error", "handoff_error", "dedup_error", "mark_error"}

\* C16 (amended). A message increments the counters by its outcome alone: a
\* processing exception on a decodable payload adds one to failed and one to
\* dead_lettered, a payload that does not decode adds one to failed only, a
\* validation failure adds one to dead_lettered only, a success or a
\* duplicate adds to neither; no other step changes the two counters.
C16_CountersByOutcome ==
  [][\A c \in Consumers :
       IF Len(results'[c]) = Len(results[c]) + 1
         THEN LET kind == results'[c][Len(results'[c])].kind IN
              /\ kind \in BothCounted =>
                   Added(c, "failed") = 1 /\ Added(c, "dead_lettered") = 1
              /\ kind \in {"json_error", "decode_error"} =>
                   Added(c, "failed") = 1 /\ Added(c, "dead_lettered") = 0
              /\ kind = "invalid" =>
                   Added(c, "failed") = 0 /\ Added(c, "dead_lettered") = 1
              /\ kind \in {"success", "duplicate"} =>
                   Added(c, "failed") = 0 /\ Added(c, "dead_lettered") = 0
         ELSE Added(c, "failed") = 0 /\ Added(c, "dead_lettered") = 0]_vars

C16_Witness ==
  \E c \in Consumers :
    /\ Len(results[c]) = 1
    /\ results[c][1].kind = "handoff_error"
    /\ stats[c] = [processed |-> 0, duplicates |-> 0, failed |-> 1, dead_lettered |-> 1]

\* The store key of the message consumer c is processing.
CurKey(c) == "skatestock:dedup:" \o _generate_fingerprint(cur[c].payload.event)

\* The store holds an entry for the key that has not reached its expiry.
LiveEntry(key) == key \in DOMAIN redis /\ redis[key].exp > now

\* The step resolves the current message of c as a duplicate.
ResolvesDuplicate(c) ==
  /\ Len(results'[c]) = Len(results[c]) + 1
  /\ results'[c][Len(results'[c])].kind = "duplicate"

\* C17. is_duplicate returns True only when the store holds a live entry for
\* the fingerprint. When the Bloom filter reports the fingerprint and the
\* store (reachable) holds no live entry, is_duplicate goes on to setex,
\* which writes the entry with the TTL of the dedup window, and the message is
\* not resolved as a duplicate.
C17_NoWrongfulSuppression ==
  [][\A c \in Consumers :
       /\ ResolvesDuplicate(c) => pc[c] = "exists" /\ LiveEntry(CurKey(c))
       /\ (pc[c] = "exists" /\ pc'[c] # "exists" /\ storeUp /\ ~LiveEntry(CurKey(c))) =>
            /\ pc'[c] = "setex"
            /\ results'[c] = results[c]
       /\ (pc[c] = "setex" /\ pc'[c] # "setex" /\ storeUp) =>
            /\ CurKey(c) \in DOMAIN redis'
            /\ redis'[CurKey(c)].exp = now + dedup_window_hours
            /\ ~ResolvesDuplicate(c)
            /\ stats'[c].duplicates = stats[c].duplicates]_vars

\* A Bloom false positive: the second message's fingerprint was never seen,
\* the filter reported it, the store had no entry and got one.
C17_Witness ==
  \E c \in Consumers :
    /\ Len(results[c]) = 2
    /\ PayloadOf(c, 1) = [kind |-> "object", event |-> EvIndy]
    /\ PayloadOf(c, 2) = [kind |-> "object", event |-> EvEmptyTitle]
    /\ results[c][2].kind = "invalid"
    /\ LiveEntry(redis_key(FingerprintAt(c, results[c][2].off)))
    /\ redis[redis_key(FingerprintAt(c, results[c][2].off))].exp
         = results[c][2].t + dedup_window_hours

\* The keys of the store that have not reached their expiry at time t.
LiveKeys(store, t) == {k \in DOMAIN store : store[k].exp > t}

\* mark_processed(event) applied to a filter and a store at time t.
MarkedFilter(filter, event) == BloomAdd(filter, _generate_fingerprint(event))

MarkedStore(store, event, t) ==
  redis_setex(store, redis_key(_generate_fingerprint(event)), t)

\* The step is a mark_processed call of c that returned.
Marks(c) == pc[c] = "mark" /\ pc'[c] # "mark" /\ storeUp

\* C18. After mark_processed(e) returned, e's fingerprint is in the filter
\* and has a live store entry, so that is_duplicate(e) finds both; and a second
\* mark_processed(e) right after the first leaves the filter and the set of
\* live store keys as the first left them.
C18_MarkProcessed ==
  /\ [][\A c \in Consumers : Marks(c) =>
          /\ BloomContains(bloom'[c], _generate_fingerprint(cur[c].payload.event))
          /\ CurKey(c) \in LiveKeys(redis', now)
          /\ redis_exists(redis', CurKey(c), now)
          /\ results'[c][Len(results'[c])].kind = "success"]_vars
  /\ [](\A c \in Consumers : pc[c] = "mark" =>
          LET event == cur[c].payload.event
              filter1 == MarkedFilter(bloom[c], event)
              store1 == MarkedStore(redis, event, now)
          IN  /\ MarkedFilter(filter1, event) = filter1
              /\ LiveKeys(MarkedStore(store1, event, now), now) = LiveKeys(store1, now))

\* mark_processed on a fingerprint both tiers already hold: the filter had the
\* bit from an earlier message and is_duplicate had just written the entry.
C18_Witness ==
  \E c \in Consumers :
    /\ Len(results[c]) = 2
    /\ PayloadOf(c, 1) = [kind |-> "object", event |-> EvEmptyTitle]
    /\ PayloadOf(c, 2) = [kind |-> "object", event |-> EvIndy]
    /\ results[c][2].kind = "success"
    /\ BloomContains(bloom[c], _generate_fingerprint(EvIndy))
    /\ redis_key(_generate_fingerprint(EvIndy)) \in LiveKeys(redis, now)

\* The entry setex writes at the current time.
FreshEntry == [ts |-> now, exp |-> now + dedup_window_hours]

\* C19 (as claimed). Once the store holds an entry for a fingerprint, no step
\* changes its timestamp or its expiry, and it leaves the store only when its
\* TTL has run out.
C19_NeverMutated ==
  [][\A k \in DOMAIN redis :
       IF k \in DOMAIN redis'
         THEN redis'[k] = redis[k]
         ELSE redis[k].exp <= now']_vars

\* C19 (amended). An entry leaves the store only when its TTL has run out.
\* An entry is written only by the setex of is_duplicate, reached after the
\* lookup found no live entry, or by mark_processed, for the fingerprint of
\* the message being processed; the write sets the timestamp to the current
\* time and the expiry a full dedup window ahead, whether the entry existed
\* or not.
C19_RewrittenByMark ==
  [][/\ \A k \in DOMAIN redis \ DOMAIN redis' :
          redis[k].exp <= now' /\ pc' = pc
     /\ \A k \in DOMAIN redis' :
          (k \notin DOMAIN redis \/ redis'[k] # redis[k]) =>
            /\ \E c \in Consumers : pc[c] \in {"setex", "mark"} /\ k = CurKey(c)
            /\ redis'[k] = FreshEntry
     /\ \A c \in Consumers : Marks(c) => redis'[CurKey(c)] = FreshEntry]_vars

\* mark_processed replaced the entry is_duplicate had written earlier for
\* the same message.
C19_Witness ==
  \E c \in Consumers :
    /\ pc[c] = "commit"
    /\ results[c][Len(results[c])].kind = "success"
    /\ "inserted" \in DOMAIN cur[c]
    /\ CurKey(c) \in DOMAIN redis
    /\ cur[c].inserted < redis[CurKey(c)].ts
    /\ redis[CurKey(c)].exp = redis[CurKey(c)].ts + dedup_window_hours

\* The value an event has under a key, or Absent.
Field(event, key) == IF key \in DOMAIN event THEN event[key] ELSE Absent

\* The value under the first key when the event has one there that is
\* truthy, else the value under the second key.
FirstOr(event, first, second) ==
  IF first \in DOMAIN event /\ Truthy(event[first])
    THEN event[first]
    ELSE Field(event, second)

\* Two events agree on source, id, title and price.
Agree(e1, e2) ==
  /\ Field(e1, "source") = Field(e2, "source")
  /\ FirstOr(e1, "source_product_id", "product_id")
       = FirstOr(e2, "source_product_id", "product_id")
  /\ Field(e1, "title") = Field(e2, "title")
  /\ FirstOr(e1, "sale_price", "original_price")
       = FirstOr(e2, "sale_price", "original_price")

\* C20. Two events that agree on source, id, title and price have the same
\* fingerprint, whatever their other fields and whichever arrived first.
C20_FingerprintStable ==
  (probe.op = "fingerprint" /\ Len(probe.order) = 2 /\ Agree(probe.e[1], probe.e[2]))
    => probe.fp[1] = probe.fp[2]

C20_Witness ==
  /\ probe.op = "fingerprint"
  /\ probe.order = <<2, 1>>
  /\ Agree(probe.e[1], probe.e[2])
  /\ probe.e[1].scraped_at # probe.e[2].scraped_at
  /\ Field(probe.e[1], "product_id") # Field(probe.e[2], "product_id")
  /\ probe.fp[1] = probe.fp[2]
  /\ probe.fp[1] = "seasons:123:Indy Stage 11:45"

\* A component as the claim has it: the text of a value that is set and
\* truthy, else the empty string.
TextOrEmpty(v) == IF Truthy(v) THEN v[2] ELSE ""

\* The first of the two keys that holds a truthy value, as text, else "".
FirstTruthy(event, first, second) ==
  IF Truthy(Field(event, first))
    THEN Field(event, first)[2]
    ELSE TextOrEmpty(Field(event, second))

\* C21 (as claimed). The fingerprint is source + ":" + (source_product_id or
\* product_id or "") + ":" + title + ":" + (sale_price or original_price or
\* ""), every missing or null field, source included, giving "".
C21_EmptyWhenMissing ==
  (probe.op = "fingerprint_one" /\ probe.done) =>
    probe.fp = TextOrEmpty(Field(probe.e, "source")) \o ":"
                 \o FirstTruthy(probe.e, "source_product_id", "product_id") \o ":"
                 \o TextOrEmpty(Field(probe.e, "title")) \o ":"
                 \o FirstTruthy(probe.e, "sale_price", "original_price")

\* A component as the f-string prints it: the given text for a missing key,
\* "None" for null, else the value's text.
Shown(v, ifAbsent) ==
  CASE v = Absent -> ifAbsent
    [] v = None -> "None"
    [] OTHER -> v[2]

\* C21 (amended). The fingerprint is defined for every decoded object and is
\* the four components joined by ":": a missing source gives "unknown", a
\* missing title "", a null source or title "None"; the id is
\* source_product_id when that is truthy, else product_id as printed ("" when
\* missing, "None" when null); the price is sale_price when truthy, else
\* original_price as printed.
C21_FingerprintFormat ==
  (probe.op = "fingerprint_one" /\ probe.done) =>
    probe.fp = Shown(Field(probe.e, "source"), "unknown") \o ":"
                 \o Shown(FirstOr(probe.e, "source_product_id", "product_id"), "") \o ":"
                 \o Shown(Field(probe.e, "title"), "") \o ":"
                 \o Shown(FirstOr(probe.e, "sale_price", "original_price"), "")

C21_Witness ==
  /\ probe.op = "fingerprint_one"
  /\ probe.done
  /\ "source" \notin DOMAIN probe.e
  /\ Field(probe.e, "title") = None
  /\ Field(probe.e, "sale_price") = Num("0")
  /\ probe.fp = "unknown:9:None:55"

\* The price a normalized product carries under a key, in hundredths, when
\* it carries one.
HasPrice(product, key) == product[key] # None

\* C22. The discount of a normalized product comes from its parsed prices
\* alone: null when a price is missing or original <= 0, else
\* (original - sale) / original * 100 to two decimals.
C22_DiscountRecomputed ==
  (probe.op = "normalize" /\ probe.done /\ probe.product.raised = "no") =>
    LET product == probe.product IN
    IF HasPrice(product, "original_price") /\ HasPrice(product, "sale_price")
         /\ product.original_price[2] > 0
      THEN product.discount_percentage =
             Float(RoundDiv((product.original_price[2] - product.sale_price[2]) * 10000,
                            product.original_price[2]))
      ELSE product.discount_percentage = None

\* C23. _normalize_event returns a record for every event with a non-empty
\* source and title, whatever its other fields hold.
C23_NormalizeNeverRaises ==
  (probe.op = "normalize" /\ probe.done) => probe.product.raised = "no"

\* C24 (as claimed). product_id is source ":" source_product_id.
C24_ProductIdColon ==
  (probe.op = "normalize" /\ probe.done /\ probe.product.raised = "no") =>
    probe.product.product_id =
      Shown(Field(probe.e, "source"), "") \o ":"
        \o Shown(Field(probe.e, "source_product_id"), "")

\* C24 (amended). product_id is source, "_", source_product_id, each as
\* str() prints it: "None" for a source_product_id that is missing or null.
C24_ProductIdUnderscore ==
  (probe.op = "normalize" /\ probe.done /\ probe.product.raised = "no") =>
    probe.product.product_id =
      Shown(Field(probe.e, "source"), "None") \o "_"
        \o Shown(Field(probe.e, "source_product_id"), "None")

C24_Witness ==
  /\ probe.op = "normalize"
  /\ probe.done
  /\ probe.product.raised = "no"
  /\ Field(probe.e, "source_product_id") = Str("123")
  /\ probe.product.product_id = "seasons_123"

\* Consumer c is about to call is_duplicate on an event whose fingerprint
\* sets a bit its filter does not have.
FilterMiss(c) ==
  /\ pc[c] = "process"
  /\ IsEvent(cur[c].payload)
  /\ (Len(_generate_fingerprint(cur[c].payload.event)) % BloomBits) \notin bloom[c]

\* C25. On a filter miss is_duplicate adds the fingerprint to the filter and
\* returns False without a call to the store: the store is as it was, the
\* lookup and the write are skipped, and the answer does not depend on the
\* store being reachable.
C25_FastPath ==
  [][\A c \in Consumers : (FilterMiss(c) /\ pc'[c] # "process") =>
       /\ (Len(_generate_fingerprint(cur[c].payload.event)) % BloomBits) \in bloom'[c]
       /\ redis' = redis
       /\ pc'[c] \notin {"exists", "setex"}
       /\ Len(results'[c]) > Len(results[c]) =>
            results'[c][Len(results'[c])].kind \in {"invalid", "handoff_error"}
       /\ stats'[c].duplicates = stats[c].duplicates]_vars

C25_Witness ==
  \E c \in Consumers :
    /\ pc[c] = "mark"
    /\ Len(polled[c]) = 1
    /\ ~storeUp
    /\ DOMAIN redis = {}
    /\ BloomContains(bloom[c], _generate_fingerprint(cur[c].payload.event))

\* is_duplicate is about to return False for the current message of c: on a
\* filter miss, or after the store lookup found nothing and the write goes
\* through.
ClassifiedNew(c) == FilterMiss(c) \/ (pc[c] = "setex" /\ storeUp)

\* The payload is an object with a non-empty source and a non-empty title.
ValidPayload(p) ==
  /\ IsEvent(p)
  /\ Truthy(Field(p.event, "source"))
  /\ Truthy(Field(p.event, "title"))

\* C26. The stages of a message come in the order dedup check, validation,
\* normalization and handoff, commit. A validation dead-letter is written
\* only for a message classified new; the callback is invoked only for a
\* message classified new and valid, before its result and its commit; a
\* commit is the last step of a message. A duplicate adds one to duplicates
\* and nothing else (no callback, no dead letter, no other counter) and goes
\* on to its commit.
C26_StageOrder ==
  /\ [][\A c \in Consumers :
          /\ ResolvesDuplicate(c) =>
               /\ handoffs'[c] = handoffs[c]
               /\ dlq'[c] = dlq[c]
               /\ stats'[c] = [stats[c] EXCEPT !.duplicates = @ + 1]
               /\ pc'[c] = "commit"
          /\ (Len(dlq'[c]) > Len(dlq[c]) /\ dlq'[c][Len(dlq'[c])].stage = "validation") =>
               /\ ClassifiedNew(c)
               /\ ~ValidPayload(cur[c].payload)
               /\ handoffs'[c] = handoffs[c]
          /\ handoffs'[c] # handoffs[c] =>
               /\ ClassifiedNew(c)
               /\ ValidPayload(cur[c].payload)
               /\ handoffs'[c] = Append(handoffs[c], cur[c].off)
               /\ ~Committed(c, cur[c].off)
               /\ \A j \in Resolved(c) : results[c][j].off # cur[c].off
          /\ commits'[c] # commits[c] =>
               /\ commits'[c] = Append(commits[c], cur[c].off)
               /\ \E j \in Resolved(c) :
                    results[c][j].off = cur[c].off /\ results[c][j].ret
               /\ handoffs'[c] = handoffs[c] /\ dlq'[c] = dlq[c]]_vars
  /\ [](\A c \in Consumers : \A j \in Resolved(c) :
          results[c][j].kind = "duplicate" =>
            /\ HandedCount(c, results[c][j].off) = 0
            /\ DeadLetters(c, results[c][j].off) = {}
            /\ Committed(c, results[c][j].off) \/ AtCommit(c, results[c][j].off))

C26_Witness ==
  \E c \in Consumers :
    /\ Len(results[c]) = 2
    /\ on_product_received[c]
    /\ results[c][1].kind = "success"
    /\ results[c][2].kind = "duplicate"
    /\ handoffs[c] = <<1>>
    /\ commits[c] = <<1, 2>>
    /\ dlq[c] = <<>>
    /\ stats[c] = [processed |-> 1, duplicates |-> 1, failed |-> 0, dead_lettered |-> 0]

\* C27. A message process_message returned False for is not passed over: no
\* later offset of its partition is committed (a commit of offset m moves the
\* committed position to m + 1), so the position stays at the message.
C27_UncommittedNotPassedOver ==
  \A c \in Consumers : \A j \in Resolved(c) :
    (~results[c][j].ret /\ ~results[c][j].raised) =>
      \A a \in 1..Len(commits[c]) : commits[c][a] < results[c][j].off

\* C28. A message whose callback ran to completion is counted as processed
\* and is neither counted as failed nor dead-lettered, also when
\* mark_processed fails after the callback returned.
C28_HandedOffNotFailed ==
  \A c \in Consumers : \A j \in Resolved(c) :
    (/\ HandedCount(c, results[c][j].off) = 1
     /\ results[c][j].kind # "handoff_error") =>
      /\ results[c][j].kind = "success"
      /\ DeadLetters(c, results[c][j].off) = {}

\* C29. The run loop never polls or commits on a released consumer handle,
\* whatever the interleaving with close() called from another thread, and
\* the close() calls together close the underlying handle at most once.
C29_NoUseAfterClose ==
  \A c \in Consumers :
    /\ pc[c] \in {"poll", "commit"} => consumer[c] = "open"
    /\ closing[c].closes <= 1

\* The dead letters of stage "validation" among d.
ValidationCount(d) == Cardinality({i \in 1..Len(d) : d[i].stage = "validation"})

\* The four outcome counts of consumer c: processed, duplicates, failed and
\* validation dead letters.
Outcomes(s, d) == <<s.processed, s.duplicates, s.failed, ValidationCount(d)>>

\* C30. The counters never decrease, every message process_message handled
\* adds one to exactly one of processed, duplicates, failed and the
\* validation dead letters, and those four add up to the messages handled.
C30_CounterAccounting ==
  /\ [](\A c \in Consumers :
          LET o == Outcomes(stats[c], dlq[c])
          IN  o[1] + o[2] + o[3] + o[4] = Len(results[c]))
  /\ [][\A c \in Consumers :
          LET o == Outcomes(stats[c], dlq[c])
              o2 == Outcomes(stats'[c], dlq'[c])
          IN  /\ \A f \in DOMAIN stats[c] : stats'[c][f] >= stats[c][f]
              /\ Len(results'[c]) = Len(results[c]) + 1 =>
                   \E k \in 1..4 :
                     /\ o2[k] = o[k] + 1
                     /\ \A m \in (1..4) \ {k} : o2[m] = o[m]
              /\ Len(results'[c]) = Len(results[c]) => o2 = o]_vars

\* Three messages handled: one processed, one dead-lettered by validation,
\* one failed and dead-lettered by the exception handler.
C30_Witness ==
  \E c \in Consumers :
    /\ Len(results[c]) = 3
    /\ stats[c].processed = 1
    /\ stats[c].failed = 1
    /\ ValidationCount(dlq[c]) = 1
    /\ stats[c].dead_lettered = 2

====
